---- MODULE Spec2Model ----
(***************************************************************************)
(* Zynox Cloud Memory (zynox_server1.py): the encrypted memory store.      *)
(* State: the process (module import: load_key, Fernet, init_db), the      *)
(* memories table of zynox_cloud.db, and the five /v1 handlers.  The       *)
(* handlers run in a thread pool.  list, download, delete and query are    *)
(* one action each: what they answer and change is decided by their one    *)
(* SQL statement.  save is two: it reads the time and builds its row, and  *)
(* later connects and INSERTs, so saves can overlap.  The request that     *)
(* finished last and its response are kept in `last`.                      *)
(*                                                                         *)
(* Python values: str is a TLA+ string; an optional value (str | None,     *)
(* list | None) is None == <<>> or Some(v) == <<v>>.                       *)
(***************************************************************************)
EXTENDS Integers, Sequences, FiniteSets, TLC

VARIABLES
    phase,      \* "down" (not started), "ready" (module imported), "failed" (import raised)
    keyFile,    \* content of secret.key: None when the file does not exist
    envSecret,  \* a key offered through the process environment (never read by the code)
    fernet,     \* the module-level Fernet object: its key, None before import
    memories,   \* the memories table: sequence of rows in rowid (insertion) order
    issued,     \* identifiers uuid4 has produced so far
    clock,      \* datetime.utcnow(), as a counter
    inflight,   \* saves that have prepared their row and not yet reached the database
    openConns,  \* connections a handler opened and left without calling close()
    saved,      \* history: id -> what the save that created the live record was given
    last        \* the last request handled and its response

vars == <<phase, keyFile, envSecret, fernet, memories, issued, clock, inflight, openConns,
          saved, last>>

----------------------------------------------------------------------------
(* Bounds of the model *)

MaxIds == 2         \* size of the pool uuid4 draws from
MaxTags == 2        \* longest caller-supplied tag list
MaxOpen == 1        \* most connections left open before faults stop being injected

----------------------------------------------------------------------------
(* Python values *)

None == <<>>
Some(v) == <<v>>
\* truthiness of an optional str or list: None, "" and [] are falsy
Truthy(x) == x /= None /\ Len(x[1]) > 0

RECURSIVE SeqsUpTo(_, _)
SeqsUpTo(S, n) ==
    IF n = 0 THEN {<<>>}
    ELSE LET shorter == SeqsUpTo(S, n - 1)
         IN shorter \cup {Append(s, x) : s \in shorter, x \in S}

Range(s) == {s[i] : i \in 1..Len(s)}

\* `w in text` for two str: w occurs as a contiguous substring
StrContains(text, w) ==
    \E i \in 1..(Len(text) - Len(w) + 1) : SubSeq(text, i, i + Len(w) - 1) = w

UpperAlpha == "ABCDEFGHIJKLMNOPQRSTUVWXYZ"
LowerAlpha == "abcdefghijklmnopqrstuvwxyz"

\* the lower-case letter of each upper-case ASCII letter
LowerMap ==
    [c \in {SubSeq(UpperAlpha, i, i) : i \in 1..Len(UpperAlpha)} |->
        LET i == CHOOSE j \in 1..Len(UpperAlpha) : SubSeq(UpperAlpha, j, j) = c
        IN SubSeq(LowerAlpha, i, i)]

LowerChar(c) == IF c \in DOMAIN LowerMap THEN LowerMap[c] ELSE c

\* str.lower() on ASCII text
RECURSIVE str_lower(_)
str_lower(s) ==
    IF Len(s) = 0 THEN ""
    ELSE LowerChar(SubSeq(s, 1, 1)) \o str_lower(SubSeq(s, 2, Len(s)))

----------------------------------------------------------------------------
(* json.dumps / json.loads on a list of str (tags hold no quote or backslash) *)

RECURSIVE JsonItems(_)
JsonItems(tags) ==
    IF Len(tags) = 0 THEN ""
    ELSE "\"" \o Head(tags) \o "\""
         \o (IF Len(tags) > 1 THEN ", " ELSE "") \o JsonItems(Tail(tags))

json_dumps(tags) == "[" \o JsonItems(tags) \o "]"

\* scan for the quoted items: `open` is the index after the opening quote of
\* the item being read, 0 between items
RECURSIVE JsonScan(_, _, _, _)
JsonScan(s, i, open, acc) ==
    IF i > Len(s) THEN acc
    ELSE IF SubSeq(s, i, i) /= "\"" THEN JsonScan(s, i + 1, open, acc)
    ELSE IF open = 0 THEN JsonScan(s, i + 1, i + 1, acc)
    ELSE JsonScan(s, i + 1, 0, Append(acc, SubSeq(s, open, i - 1)))

json_loads(s) == JsonScan(s, 1, 0, <<>>)

\* `json.loads(r[2]) if r[2] else []`
RowTags(r) == IF Len(r.tags) > 0 THEN json_loads(r.tags) ELSE <<>>

----------------------------------------------------------------------------
(* Config *)

API_KEY == "test-demo-key"
FernetKeys == {"K1", "K2"}
NotAKey == "garbage"

IdPool == 1..MaxIds
Faults == {"none", "connect", "execute"}

----------------------------------------------------------------------------
(* Cipher: Fernet(key).encrypt / .decrypt.  A token carries the payload and  *)
(* an authentication tag over (key, payload); decrypt verifies the tag and   *)
(* raises InvalidToken when it does not match.                               *)

fernet_encrypt(k, data) == [ct |-> data, mac |-> <<k, data>>]

fernet_decrypt(k, token) ==
    IF token.mac = <<k, token.ct>> THEN [ok |-> TRUE, data |-> token.ct]
    ELSE [ok |-> FALSE, data |-> ""]

\* Fernet(key) raises ValueError unless key is a well-formed 32-byte key
ValidFernetKey(k) == k \in FernetKeys

----------------------------------------------------------------------------
(* check_api_key and detect_emotion *)

\* check_api_key letting a request without the header through
check_api_key_AllowMissing(x_api_key) == x_api_key = None \/ x_api_key = Some(API_KEY)

\* TRUE when check_api_key returns, FALSE when it raises HTTPException(401)
check_api_key(x_api_key) == ~(x_api_key /= Some(API_KEY))

SadWords == <<"sad", "depressed", "tired", "lonely">>
HappyWords == <<"happy", "joy", "excited", "great">>
AngryWords == <<"angry", "mad", "furious", "upset">>

\* any(w in text for w in words)
AnyIn(words, text) == \E i \in 1..Len(words) : StrContains(text, words[i])

\* detect_emotion with the happy list tested before the sad list
detect_emotion_HappyFirst(text) ==
    LET t == str_lower(text) IN
    IF AnyIn(HappyWords, t) THEN Some("happy")
    ELSE IF AnyIn(SadWords, t) THEN Some("sad")
    ELSE IF AnyIn(AngryWords, t) THEN Some("angry")
    ELSE None

detect_emotion(text) ==
    LET t == str_lower(text) IN
    IF AnyIn(SadWords, t) THEN Some("sad")
    ELSE IF AnyIn(HappyWords, t) THEN Some("happy")
    ELSE IF AnyIn(AngryWords, t) THEN Some("angry")
    ELSE None

\* save_memory appending the emotion without the `not in tags` test
SaveTags_AlwaysAppend(payload) ==
    LET tags == IF Truthy(payload.tags) THEN payload.tags[1] ELSE <<>>
        emotion == detect_emotion(payload.data)
    IN IF emotion /= None THEN Append(tags, emotion[1]) ELSE tags

\* save_memory, lines 159-162: tags = payload.tags or []; append the emotion
\* unless it is already in the list
SaveTags(payload) ==
    LET tags == IF Truthy(payload.tags) THEN payload.tags[1] ELSE <<>>
        emotion == detect_emotion(payload.data)
    IN IF emotion /= None /\ Len(emotion[1]) > 0 /\ emotion[1] \notin Range(tags)
       THEN Append(tags, emotion[1])
       ELSE tags

\* the row save_memory inserts
NewRow(mem_id, payload, now, k) ==
    [id |-> mem_id,
     owner_id |-> payload.owner_id,
     key |-> IF Truthy(payload.key) THEN payload.key[1] ELSE "",
     tags |-> json_dumps(SaveTags(payload)),
     created_at |-> now,
     updated_at |-> now,
     enc_blob |-> fernet_encrypt(k, payload.data),
     version |-> 1]

----------------------------------------------------------------------------
(* Responses *)

Unauthorized == [detail |-> "Invalid API key"]
NotFound == [detail |-> "Not found"]
ServerError == [detail |-> "Internal Server Error"]

Response(op, x_api_key, arg, fault, status, body, conn) ==
    [op |-> op, x_api_key |-> x_api_key, arg |-> arg, fault |-> fault,
     status |-> status, body |-> body, conn |-> conn]

\* the request was rejected by check_api_key: nothing else ran
Rejected(op, x_api_key, arg) ==
    /\ last' = Response(op, x_api_key, arg, "none", 401, Unauthorized, "none")
    /\ UNCHANGED <<phase, keyFile, envSecret, fernet, memories, issued, clock,
                   openConns, saved>>

\* sqlite3.connect raised: no connection was opened
ConnectFailed(op, x_api_key, arg) ==
    /\ last' = Response(op, x_api_key, arg, "connect", 500, ServerError, "none")
    /\ UNCHANGED <<phase, keyFile, envSecret, fernet, memories, issued, clock,
                   openConns, saved>>

\* a statement raised: the exception leaves the handler before conn.close()
StatementFailed(op, x_api_key, arg) ==
    /\ openConns < MaxOpen
    /\ openConns' = openConns + 1
    /\ last' = Response(op, x_api_key, arg, "execute", 500, ServerError, "open")
    /\ UNCHANGED <<phase, keyFile, envSecret, fernet, memories, issued, clock, saved>>

\* the SELECT of list and query without its WHERE clause
RowsOfOwner_NoWhere(owner_id) == memories

\* SELECT ... WHERE owner_id = ?
RowsOfOwner(owner_id) == SelectSeq(memories, LAMBDA r : r.owner_id = owner_id)

\* the SELECT of download without its WHERE clause
RowsWithId_NoWhere(mem_id) == memories

\* SELECT ... WHERE id = ?
RowsWithId(mem_id) == SelectSeq(memories, LAMBDA r : r.id = mem_id)

\* the DELETE never committed
WithoutId_NoCommit(mem_id) == memories

\* DELETE FROM memories WHERE id = ?
WithoutId(mem_id) == SelectSeq(memories, LAMBDA r : r.id /= mem_id)

----------------------------------------------------------------------------
(* Module import: load_key, Fernet(load_key()), init_db *)

\* a start that generates and persists a key when secret.key is missing
Startup_GenerateKey ==
    /\ UNCHANGED inflight
    /\ phase = "down"
    /\ IF keyFile = None
       THEN /\ keyFile' = Some("K1")
            /\ phase' = "ready"
            /\ fernet' = Some("K1")
       ELSE /\ keyFile' = keyFile
            /\ IF ValidFernetKey(keyFile[1])
               THEN phase' = "ready" /\ fernet' = Some(keyFile[1])
               ELSE phase' = "failed" /\ fernet' = None
    /\ last' = Response("startup", None, [keyFile |-> keyFile, envSecret |-> envSecret],
                        "none", 0, None, "none")
    /\ UNCHANGED <<envSecret, memories, issued, clock, openConns, saved>>

\* load_key raises RuntimeError when secret.key does not exist; Fernet raises
\* ValueError on a malformed key; either way the import fails and nothing is
\* served.  init_db is CREATE TABLE IF NOT EXISTS: an existing table is kept.
Startup ==
    /\ UNCHANGED inflight
    /\ phase = "down"
    /\ IF keyFile = None \/ ~ValidFernetKey(keyFile[1])
       THEN /\ phase' = "failed"
            /\ fernet' = None
       ELSE /\ phase' = "ready"
            /\ fernet' = Some(keyFile[1])
    /\ last' = Response("startup", None, [keyFile |-> keyFile, envSecret |-> envSecret],
                        "none", 0, None, "none")
    /\ UNCHANGED <<keyFile, envSecret, memories, issued, clock, openConns, saved>>

\* the process ends (or its failed start is given up); the database file stays
Shutdown ==
    /\ phase \in {"ready", "failed"}
    /\ phase' = "down"
    /\ fernet' = None
    /\ inflight' = {}
    /\ openConns' = 0
    /\ last' = Response("shutdown", None, None, "none", 0, None, "none")
    /\ UNCHANGED <<keyFile, envSecret, memories, issued, clock, saved>>

\* the operator writes, replaces or removes secret.key, or sets the
\* environment, while the process is down
Provision(file, env) ==
    /\ UNCHANGED inflight
    /\ phase = "down"
    /\ <<file, env>> /= <<keyFile, envSecret>>
    /\ keyFile' = file
    /\ envSecret' = env
    /\ last' = Response("provision", None, None, "none", 0, None, "none")
    /\ UNCHANGED <<phase, fernet, memories, issued, clock, openConns, saved>>

\* a stored token with its payload damaged and its authentication tag as it was
Damaged(token) == [token EXCEPT !.ct = token.ct \o "?"]

\* zynox_cloud.db is damaged or edited outside the service: the enc_blob of the
\* record mem_id is no longer the token save wrote
Corrupt(mem_id) ==
    /\ UNCHANGED inflight
    /\ \E n \in 1..Len(memories) :
          /\ memories[n].id = mem_id
          /\ memories[n].enc_blob = saved[mem_id].blob
          /\ memories' = [memories EXCEPT ![n].enc_blob = Damaged(@)]
    /\ last' = Response("corrupt", None, mem_id, "none", 0, None, "none")
    /\ UNCHANGED <<phase, keyFile, envSecret, fernet, issued, clock, openConns, saved>>

----------------------------------------------------------------------------
(* Memory endpoints *)

\* uuid.uuid4(): an identifier never produced before.  Identifiers are opaque
\* and only compared for equality, so the least unused one of the pool stands
\* for whichever fresh value uuid4 returns.
uuid4 == CHOOSE i \in IdPool \ issued : \A j \in IdPool \ issued : i <= j

\* POST /v1/save, lines 151-162: what a save does before it touches the
\* database.  It checks the key, draws the identifier, reads the time,
\* encrypts and tags; plain `def` handlers run in a thread pool, so other
\* requests, other saves included, can be handled before its INSERT.
save_memory_prepare(payload, x_api_key) ==
    /\ phase = "ready"
    /\ IF ~check_api_key(x_api_key)
       THEN Rejected("save", x_api_key, payload) /\ UNCHANGED inflight
       ELSE LET mem_id == uuid4
                request == [x_api_key |-> x_api_key, payload |-> payload,
                            tags |-> SaveTags(payload),
                            row |-> NewRow(mem_id, payload, clock, fernet[1])]
            IN /\ IdPool \ issued /= {}
               /\ issued' = issued \cup {mem_id}
               /\ clock' = clock + 1
               /\ inflight' = inflight \cup {request}
               /\ UNCHANGED <<phase, keyFile, envSecret, fernet, memories, openConns,
                              saved, last>>

\* POST /v1/save, lines 164-172: connect, INSERT, commit, close, respond
save_memory(request, fault) ==
    /\ phase = "ready"
    /\ request \in inflight
    /\ inflight' = inflight \ {request}
    /\ IF fault = "connect" THEN ConnectFailed("save", request.x_api_key, request.payload)
       ELSE IF fault = "execute"
       THEN StatementFailed("save", request.x_api_key, request.payload)
       ELSE LET row == request.row
            IN /\ memories' = Append(memories, row)
               /\ saved' = [i \in DOMAIN saved \cup {row.id} |->
                              IF i = row.id
                              THEN [owner_id |-> request.payload.owner_id,
                                    data |-> request.payload.data,
                                    fernet |-> fernet[1], blob |-> row.enc_blob]
                              ELSE saved[i]]
               /\ last' = Response("save", request.x_api_key, request.payload, "none", 200,
                                   [status |-> "ok", id |-> row.id, tags |-> request.tags],
                                   "closed")
               /\ UNCHANGED <<phase, keyFile, envSecret, fernet, issued, clock, openConns>>

ListItem(r) ==
    [id |-> r.id, key |-> r.key, tags |-> RowTags(r), created_at |-> r.created_at,
     updated_at |-> r.updated_at, version |-> r.version]

ListItems(rows) == [n \in 1..Len(rows) |-> ListItem(rows[n])]

\* GET /v1/list/{owner_id}
list_memories(owner_id, x_api_key, fault) ==
    /\ phase = "ready"
    /\ UNCHANGED inflight
    /\ IF ~check_api_key(x_api_key) THEN Rejected("list", x_api_key, owner_id)
       ELSE IF fault = "connect" THEN ConnectFailed("list", x_api_key, owner_id)
       ELSE IF fault = "execute" THEN StatementFailed("list", x_api_key, owner_id)
       ELSE /\ last' = Response("list", x_api_key, owner_id, "none", 200,
                                [status |-> "ok", items |-> ListItems(RowsOfOwner(owner_id))],
                                "closed")
            /\ UNCHANGED <<phase, keyFile, envSecret, fernet, memories, issued, clock,
                           openConns, saved>>

\* download, lines 202-207: what follows conn.close()
DownloadResult(rows) ==
    IF Len(rows) = 0 THEN [status |-> 404, body |-> NotFound]
    ELSE LET decrypted == fernet_decrypt(fernet[1], rows[1].enc_blob)
         IN IF decrypted.ok
            THEN [status |-> 200, body |-> [status |-> "ok", data |-> decrypted.data]]
            ELSE [status |-> 500, body |-> ServerError]

\* GET /v1/download/{mem_id}
download(mem_id, x_api_key, fault) ==
    /\ phase = "ready"
    /\ UNCHANGED inflight
    /\ IF ~check_api_key(x_api_key) THEN Rejected("download", x_api_key, mem_id)
       ELSE IF fault = "connect" THEN ConnectFailed("download", x_api_key, mem_id)
       ELSE IF fault = "execute" THEN StatementFailed("download", x_api_key, mem_id)
       ELSE LET res == DownloadResult(RowsWithId(mem_id))
            IN /\ last' = Response("download", x_api_key, mem_id, "none", res.status,
                                   res.body, "closed")
               /\ UNCHANGED <<phase, keyFile, envSecret, fernet, memories, issued, clock,
                              openConns, saved>>

\* DELETE /v1/delete/{mem_id}
delete(mem_id, x_api_key, fault) ==
    /\ phase = "ready"
    /\ UNCHANGED inflight
    /\ IF ~check_api_key(x_api_key) THEN Rejected("delete", x_api_key, mem_id)
       ELSE IF fault = "connect" THEN ConnectFailed("delete", x_api_key, mem_id)
       ELSE IF fault = "execute" THEN StatementFailed("delete", x_api_key, mem_id)
       ELSE /\ memories' = WithoutId(mem_id)
            /\ saved' = [i \in DOMAIN saved \ {mem_id} |-> saved[i]]
            /\ last' = Response("delete", x_api_key, mem_id, "none", 200,
                                [status |-> "ok", deleted |-> mem_id], "closed")
            /\ UNCHANGED <<phase, keyFile, envSecret, fernet, issued, clock, openConns>>

\* the two filters joined by `and`
QueryMatch_And(emotion, keyword, tags, decrypted) ==
    /\ (Truthy(emotion) /\ emotion[1] \in Range(tags))
    /\ (Truthy(keyword) /\ StrContains(str_lower(decrypted), str_lower(keyword[1])))

\* query_memories, line 239
QueryMatch(emotion, keyword, tags, decrypted) ==
    \/ (Truthy(emotion) /\ emotion[1] \in Range(tags))
    \/ (Truthy(keyword) /\ StrContains(str_lower(decrypted), str_lower(keyword[1])))

\* the loop leaving at the first row that fails to decrypt (break for continue)
RECURSIVE QueryResults_StopAtFailure(_, _, _)
QueryResults_StopAtFailure(rows, emotion, keyword) ==
    IF Len(rows) = 0 THEN <<>>
    ELSE LET r == Head(rows)
             decrypted == fernet_decrypt(fernet[1], r.enc_blob)
             tags == RowTags(r)
             rest == QueryResults_StopAtFailure(Tail(rows), emotion, keyword)
         IN IF ~decrypted.ok THEN <<>>
            ELSE IF (Truthy(emotion) /\ emotion[1] \in Range(tags))
                    \/ (Truthy(keyword) /\
                        StrContains(str_lower(decrypted.data), str_lower(keyword[1])))
            THEN <<[id |-> r.id, key |-> r.key, tags |-> tags,
                    created_at |-> r.created_at, text |-> decrypted.data]>> \o rest
            ELSE rest

\* query_memories, lines 231-246: the loop over the owner's rows
RECURSIVE QueryResults(_, _, _)
QueryResults(rows, emotion, keyword) ==
    IF Len(rows) = 0 THEN <<>>
    ELSE LET r == Head(rows)
             decrypted == fernet_decrypt(fernet[1], r.enc_blob)
             tags == RowTags(r)
             rest == QueryResults(Tail(rows), emotion, keyword)
         IN IF ~decrypted.ok THEN rest
            ELSE IF QueryMatch(emotion, keyword, tags, decrypted.data)
            THEN <<[id |-> r.id, key |-> r.key, tags |-> tags,
                    created_at |-> r.created_at, text |-> decrypted.data]>> \o rest
            ELSE rest

\* POST /v1/query/{owner_id}
query_memories(owner_id, body, x_api_key, fault) ==
    /\ phase = "ready"
    /\ UNCHANGED inflight
    /\ LET arg == [owner_id |-> owner_id, emotion |-> body.emotion, keyword |-> body.keyword]
       IN IF ~check_api_key(x_api_key) THEN Rejected("query", x_api_key, arg)
          ELSE IF fault = "connect" THEN ConnectFailed("query", x_api_key, arg)
          ELSE IF fault = "execute" THEN StatementFailed("query", x_api_key, arg)
          ELSE /\ last' = Response("query", x_api_key, arg, "none", 200,
                                   [status |-> "ok",
                                    results |-> QueryResults(RowsOfOwner(owner_id),
                                                             body.emotion, body.keyword)],
                                   "closed")
               /\ UNCHANGED <<phase, keyFile, envSecret, fernet, memories, issued, clock,
                              openConns, saved>>

----------------------------------------------------------------------------
(* Requests the clients send *)

Owners == {"u1", "u2"}
Headers == {None, Some(API_KEY), Some("wrong-key")}

Payloads(owners, labels, tagInputs, texts) ==
    [owner_id : owners, key : labels, tags : tagInputs, data : texts]

QueryBodies(emotions, keywords) == [emotion : emotions, keyword : keywords]

Idle == Response("none", None, None, "none", 0, None, "none")

\* the process has not been started; the database file is new
InitDown ==
    /\ phase = "down"
    /\ keyFile = None
    /\ envSecret = None
    /\ fernet = None
    /\ memories = <<>>
    /\ issued = {}
    /\ clock = 0
    /\ inflight = {}
    /\ openConns = 0
    /\ saved = <<>>
    /\ last = Idle

\* the module has been imported with secret.key in place
Init ==
    /\ phase = "ready"
    /\ keyFile = Some("K1")
    /\ envSecret = None
    /\ fernet = Some("K1")
    /\ memories = <<>>
    /\ issued = {}
    /\ clock = 0
    /\ inflight = {}
    /\ openConns = 0
    /\ saved = <<>>
    /\ last = Idle

(* The service in operation: two owners, callers with and without the key, *)
(* and a persistence layer that can fail                                     *)
Texts == {"I feel so lonely today", "Banana bread"}

\* each owner saves a text of their own
OwnTexts ==
    {p \in Payloads(Owners, {None}, {None}, Texts) :
        (p.owner_id = "u1") <=> (p.data = "I feel so lonely today")}

Next ==
    \/ \E payload \in OwnTexts, h \in Headers : save_memory_prepare(payload, h)
    \/ \E request \in inflight, f \in Faults : save_memory(request, f)
    \/ \E o \in Owners, h \in Headers, f \in Faults : list_memories(o, h, f)
    \/ \E i \in IdPool, h \in Headers, f \in Faults : download(i, h, f)
    \/ \E i \in IdPool, h \in Headers, f \in Faults : delete(i, h, f)
    \/ \E o \in Owners, h \in Headers, f \in Faults :
          query_memories(o, [emotion |-> Some("sad"), keyword |-> Some("BREAD")], h, f)

Spec == Init /\ [][Next]_vars

(* Queries over tagged and untagged records *)
TagInputs == {None, Some(<<"angry">>)}
Emotions == {None, Some(""), Some("angry")}
Keywords == {None, Some(""), Some("BANANA"), Some("apple")}

NextQuery ==
    \/ \E payload \in Payloads({"u1"}, {None}, TagInputs, Texts) :
          save_memory_prepare(payload, Some(API_KEY))
    \/ \E request \in inflight : save_memory(request, "none")
    \/ \E i \in IdPool : delete(i, Some(API_KEY), "none")
    \/ \E o \in Owners, body \in QueryBodies(Emotions, Keywords) :
          query_memories(o, body, Some(API_KEY), "none")

SpecQuery == Init /\ [][NextQuery]_vars

(* One record at a time, with every shape of tag list and text *)
TagNames == {"happy", "sad"}
Vocabulary == {"SAD", "happy", "Upset", "made", "banana"}
MaxWords == 2

RECURSIVE Sentences(_)
Sentences(n) ==
    IF n = 0 THEN {""}
    ELSE LET shorter == Sentences(n - 1)
         IN shorter \cup Vocabulary \cup
            {s \o " " \o w : s \in shorter \ {""}, w \in Vocabulary}

AllTagInputs == {None} \cup {Some(t) : t \in SeqsUpTo(TagNames, MaxTags)}

NextSave ==
    \/ /\ memories = <<>>
       /\ inflight = {}
       /\ \E payload \in Payloads({"u1"}, {None, Some("diary")}, AllTagInputs,
                                  Sentences(MaxWords)) :
             save_memory_prepare(payload, Some(API_KEY))
    \/ \E request \in inflight : save_memory(request, "none")
    \/ \E i \in IdPool : delete(i, Some(API_KEY), "none")

SpecSave == Init /\ [][NextSave]_vars

(* The process across restarts, with secret.key written, replaced or removed, *)
(* and a database file that can be damaged                                     *)
KeyFiles == {None, Some(NotAKey)} \cup {Some(k) : k \in FernetKeys}
EnvSecrets == {None, Some("K2")}

NextLifecycle ==
    \/ Startup
    \/ Shutdown
    \/ \E file \in KeyFiles, env \in EnvSecrets : Provision(file, env)
    \/ \E i \in IdPool : Corrupt(i)
    \/ save_memory_prepare([owner_id |-> "u1", key |-> None, tags |-> None,
                            data |-> "Banana bread"], Some(API_KEY))
    \/ \E request \in inflight : save_memory(request, "none")
    \/ \E i \in IdPool : download(i, Some(API_KEY), "none")
    \/ query_memories("u1", [emotion |-> None, keyword |-> Some("banana")],
                      Some(API_KEY), "none")

SpecLifecycle == InitDown /\ [][NextLifecycle]_vars

----------------------------------------------------------------------------
(* Properties *)

HandlerOps == {"save", "list", "download", "delete", "query"}

\* the last request carried the configured key and met no persistence fault
Served(op) == last.op = op /\ last.x_api_key = Some(API_KEY) /\ last.fault = "none"

\* ids of a sequence of rows, items or results
Ids(rows) == [n \in 1..Len(rows) |-> rows[n].id]

\* C1: a record that save returned and that no delete(i) has removed since is
\* downloaded as exactly the text it was saved with, and list(owner) shows it
\* with version 1, whatever other requests were handled in between.
C1_RoundTrip ==
    /\ Served("save") =>
          /\ last.status = 200
          /\ last.body.id \in DOMAIN saved
          /\ saved[last.body.id].data = last.arg.data
    /\ (Served("download") /\ last.arg \in DOMAIN saved) =>
          /\ last.status = 200
          /\ last.body = [status |-> "ok", data |-> saved[last.arg].data]
    /\ Served("list") =>
          /\ last.status = 200
          /\ \A i \in DOMAIN saved :
                saved[i].owner_id = last.arg =>
                   \E n \in 1..Len(last.body.items) :
                      /\ last.body.items[n].id = i
                      /\ last.body.items[n].version = 1

\* two records are live, other requests came after both saves, and the second
\* one is downloaded
C1_Witness ==
    /\ Served("download")
    /\ Len(memories) = 2
    /\ last.arg = memories[2].id
    /\ last.status = 200
    /\ last.body.data = "I feel so lonely today"
    /\ memories[1].enc_blob.ct = "Banana bread"

\* C2: list(A) and query(A, ...) return only records created by a save with
\* owner_id = A, and the owner_id of a stored record is the one it was created
\* with.
C2_OwnerIsolation ==
    /\ \A n \in 1..Len(memories) :
          /\ memories[n].id \in DOMAIN saved
          /\ memories[n].owner_id = saved[memories[n].id].owner_id
    /\ (last.op = "list" /\ last.status = 200) =>
          \A n \in 1..Len(last.body.items) :
             /\ last.body.items[n].id \in DOMAIN saved
             /\ saved[last.body.items[n].id].owner_id = last.arg
    /\ (last.op = "query" /\ last.status = 200) =>
          \A n \in 1..Len(last.body.results) :
             /\ last.body.results[n].id \in DOMAIN saved
             /\ saved[last.body.results[n].id].owner_id = last.arg.owner_id

\* a list for one owner answered while the other owner has a record too
C2_Witness ==
    /\ last.op = "list"
    /\ last.status = 200
    /\ Len(last.body.items) = 1
    /\ \E n \in 1..Len(memories) : memories[n].owner_id /= last.arg

\* C3: delete(i) answers {status: ok, deleted: i} whether or not a record i
\* exists; after it a second delete(i) leaves the table as it is and answers
\* the same, and download(i) answers 404 Not found.
C3_DeleteIdempotent ==
    Served("delete") =>
       /\ last.status = 200
       /\ last.body = [status |-> "ok", deleted |-> last.arg]
       /\ Len(RowsWithId(last.arg)) = 0
       /\ WithoutId(last.arg) = memories
       /\ DownloadResult(RowsWithId(last.arg)) = [status |-> 404, body |-> NotFound]

\* a record that existed has been deleted and another record is still there
C3_Witness ==
    /\ Served("delete")
    /\ last.arg \in issued
    /\ Len(memories) = 1

\* C8: a request to any memory endpoint whose X-API-Key is missing or is not
\* the configured key is answered 401 "Invalid API key" with no connection
\* opened and no record data in the answer, and it leaves the table unchanged.
C8_ApiKeyGate ==
    /\ [](last.op \in HandlerOps /\ last.x_api_key /= Some(API_KEY) =>
             /\ last.status = 401
             /\ last.body = [detail |-> "Invalid API key"]
             /\ last.conn = "none"
             /\ last.fault = "none")
    /\ [][last'.op \in HandlerOps /\ last'.x_api_key /= Some(API_KEY) =>
             /\ memories' = memories
             /\ openConns' = openConns]_vars

\* a delete without the key, aimed at a record that is still there afterwards
C8_Witness ==
    /\ last.op = "delete"
    /\ last.x_api_key = None
    /\ last.status = 401
    /\ Len(RowsWithId(last.arg)) = 1

\* C10: no finished request leaves the connection it opened unclosed.
C10_ConnectionsReleased ==
    /\ last.conn /= "open"
    /\ openConns = 0

\* the tag list a save request carried: None counts as the empty list
CallerTags == IF last.arg.tags = None THEN <<>> ELSE last.arg.tags[1]

\* the tags column of the record the last save created, decoded
StoredTags ==
    LET rows == SelectSeq(memories, LAMBDA r : r.id = last.body.id)
    IN IF Len(rows) = 1 THEN json_loads(rows[1].tags) ELSE <<"?">>

\* the emotion the documented priority gives a text: sad before happy before angry
ExpectedEmotion(text) ==
    LET t == str_lower(text)
        has(words) == \E w \in words : StrContains(t, w)
    IN IF has({"sad", "depressed", "tired", "lonely"}) THEN Some("sad")
       ELSE IF has({"happy", "joy", "excited", "great"}) THEN Some("happy")
       ELSE IF has({"angry", "mad", "furious", "upset"}) THEN Some("angry")
       ELSE None

\* tags ++ [emotion] unless there is no emotion or tags holds it already
WithEmotion(tags, emotion) ==
    IF emotion /= None /\ emotion[1] \notin Range(tags)
    THEN Append(tags, emotion[1])
    ELSE tags

NoDuplicates(seq) == \A m, n \in 1..Len(seq) : seq[m] = seq[n] => m = n

\* seq with only the first occurrence of each element kept
RECURSIVE FirstOccurrences(_)
FirstOccurrences(seq) ==
    IF Len(seq) = 0 THEN <<>>
    ELSE LET init == FirstOccurrences(SubSeq(seq, 1, Len(seq) - 1))
             x == seq[Len(seq)]
         IN IF x \in Range(init) THEN init ELSE Append(init, x)

\* C4 as stated: whatever tag list the caller sends, repeats included, the tags
\* stored and returned hold no duplicate and are the caller's tags in order of
\* first occurrence followed by the emotion tag if it is not among them.
C4_TagsDeduplicated ==
    Served("save") =>
       /\ NoDuplicates(StoredTags)
       /\ StoredTags = last.body.tags
       /\ StoredTags = WithEmotion(FirstOccurrences(CallerTags),
                                   ExpectedEmotion(last.arg.data))

\* C4 amended: the tags stored and returned are the caller's list exactly as
\* sent (repeats kept) followed by the emotion tag if it is not among them; so
\* save never adds a tag twice, and a list sent without repeats is stored
\* without repeats.
C4_EmotionTagNotDuplicated ==
    Served("save") =>
       /\ StoredTags = last.body.tags
       /\ StoredTags = WithEmotion(CallerTags, ExpectedEmotion(last.arg.data))
       /\ NoDuplicates(CallerTags) => NoDuplicates(StoredTags)

\* tags ["happy"] sent with a happy text: stored as ["happy"]
C4_Witness ==
    /\ Served("save")
    /\ CallerTags = <<"happy">>
    /\ ExpectedEmotion(last.arg.data) = Some("happy")
    /\ StoredTags = <<"happy">>

\* C6: the emotion of a text is sad if its lower-cased form contains a sad
\* keyword, else happy if it contains a happy keyword, else angry if it
\* contains an angry keyword, else none; save adds that tag and no other.
C6_EmotionPriority ==
    Served("save") =>
       LET e == ExpectedEmotion(last.arg.data) IN
       /\ detect_emotion(last.arg.data) = e
       /\ e /= None => e[1] \in Range(StoredTags)
       /\ Range(StoredTags) \ Range(CallerTags) \subseteq Range(e)
       /\ Range(CallerTags) \subseteq Range(StoredTags)

\* a text with a sad and a happy keyword, sent without tags, is tagged sad only
C6_Witness ==
    /\ Served("save")
    /\ last.arg.data = "happy SAD"
    /\ CallerTags = <<>>
    /\ StoredTags = <<"sad">>

\* the token of row r is the one save wrote, and it was written under the
\* key the process holds now
Decryptable(r) == r.enc_blob = saved[r.id].blob /\ saved[r.id].fernet = fernet[1]

\* the rows of the table a query must return, given which filters count as supplied
QueryExpected(owner_id, emotion, keyword, supplied(_)) ==
    SelectSeq(memories, LAMBDA r :
        /\ r.id \in DOMAIN saved
        /\ saved[r.id].owner_id = owner_id
        /\ Decryptable(r)
        /\ \/ (supplied(emotion) /\ emotion[1] \in Range(json_loads(r.tags)))
           \/ (supplied(keyword) /\
               StrContains(str_lower(saved[r.id].data), str_lower(keyword[1]))))

QueryAnswers(supplied(_)) ==
    Served("query") =>
       /\ last.status = 200
       /\ Ids(last.body.results) =
             Ids(QueryExpected(last.arg.owner_id, last.arg.emotion, last.arg.keyword,
                               supplied))
       /\ \A n \in 1..Len(last.body.results) :
             last.body.results[n].text = saved[last.body.results[n].id].data

\* C5 as stated: a filter counts as soon as it is supplied, the empty string included
C5_QueryOrSupplied == QueryAnswers(LAMBDA x : x /= None)

\* C5 amended: query returns exactly the owner's decryptable records for which
\* (emotion is supplied, not empty, and among the record's tags) or (keyword
\* is supplied, not empty, and a case-insensitive substring of the text); an
\* empty-string filter counts as not supplied.
C5_QueryOrNonEmpty == QueryAnswers(LAMBDA x : x /= None /\ x[1] /= "")

\* a record tagged angry about bananas answers query(emotion=angry, keyword=apple),
\* the owner's other record does not
C5_Witness ==
    /\ Served("query")
    /\ last.arg.emotion = Some("angry")
    /\ last.arg.keyword = Some("apple")
    /\ Len(last.body.results) = 1
    /\ StrContains(last.body.results[1].text, "Banana")
    /\ Len(RowsOfOwner(last.arg.owner_id)) = 2

\* C7: with a row of the owner that cannot be decrypted (its token damaged, or
\* written under another key), query answers ok with every other matching row
\* and without that one, and download of that row answers 500, neither 404 nor
\* a 200 with damaged data.
C7_DecryptionFailurePolicy ==
    /\ Served("query") =>
          /\ last.status = 200
          /\ Ids(last.body.results) =
                Ids(SelectSeq(RowsOfOwner(last.arg.owner_id), Decryptable))
          /\ \A n \in 1..Len(last.body.results) :
                last.body.results[n].text = saved[last.body.results[n].id].data
    /\ (Served("download") /\ Len(RowsWithId(last.arg)) = 1
          /\ ~Decryptable(RowsWithId(last.arg)[1])) =>
          /\ last.status = 500
          /\ last.body = ServerError

\* a row written under the previous key precedes one written under the current
\* key, and the query returns the second alone
C7_Witness ==
    /\ Served("query")
    /\ Len(memories) = 2
    /\ saved[memories[1].id].fernet /= fernet[1]
    /\ Ids(last.body.results) = <<memories[2].id>>

\* C9 as stated: startup takes the key from the environment secret if there is
\* one, else from secret.key if it exists, else generates and persists one; in
\* each case the service becomes ready.
C9_KeyLifecycle ==
    last.op = "startup" =>
       /\ phase = "ready"
       /\ IF last.arg.envSecret /= None THEN fernet = last.arg.envSecret
          ELSE IF last.arg.keyFile /= None THEN fernet = last.arg.keyFile
          ELSE fernet /= None /\ keyFile = fernet

\* C9 amended: startup takes the key from secret.key alone; with a well-formed
\* key there the service becomes ready with that key, whatever the environment
\* offers; without the file (or with a malformed one) startup fails, nothing is
\* generated or persisted, and the service does not become ready.
C9_KeyFromFileOrFail ==
    last.op = "startup" =>
       /\ keyFile = last.arg.keyFile
       /\ IF keyFile /= None /\ keyFile[1] \in FernetKeys
          THEN phase = "ready" /\ fernet = keyFile
          ELSE phase = "failed" /\ fernet = None

\* started with an environment secret and no secret.key: the start failed
C9_Witness ==
    /\ last.op = "startup"
    /\ last.arg.envSecret /= None
    /\ keyFile = None
    /\ phase = "failed"

====
